---- MODULE Spec2Model ----
(***************************************************************************)
(* Model of the gllcms GStreamer element (src/src/gllcms.rs): the settings *)
(* and state mutexes, the GL buffer object holding the lookup table, and   *)
(* the handlers set_property, property, gl_start, gl_stop, filter_texture. *)
(*                                                                         *)
(* Two callers are modelled: "render" runs gl_start, gl_stop and           *)
(* filter_texture one after the other, as GstGLBaseFilter does; "ctl" runs *)
(* set_property / property at any time.  Every handler is split at its     *)
(* lock acquisitions, so a caller waiting for a mutex is a state of the    *)
(* model.  A panic unwinds the handler: the guards it holds are dropped    *)
(* and their mutexes are poisoned.                                         *)
(*                                                                         *)
(* f64 properties are sampled by small integers.  NaN is left out: the     *)
(* GObject property system refuses it before set_property is reached.      *)
(* A lookup table (2^24 entries computed by lcms2) is represented by the   *)
(* configuration value it was computed from.                               *)
(***************************************************************************)
EXTENDS Integers, FiniteSets, Sequences, TLC

\* ---------------------------------------------------------------- bounds
MaxStarts == 2
MaxWrites == 3

\* ------------------------------------------------------------- constants
DEFAULT_BRIGHTNESS == 0
DEFAULT_CONTRAST == 1
DEFAULT_HUE == 0
DEFAULT_SATURATION == 0

\* Sampled property values written by the host.
BrightnessValues == {DEFAULT_BRIGHTNESS, 1}
ContrastValues == {DEFAULT_CONTRAST, 2}
HueValues == {DEFAULT_HUE, 90}
SaturationValues == {DEFAULT_SATURATION, 1}
IccPaths == {"a.icc"}
\* Every String handed to set_property is a fresh heap allocation; the id
\* tells two allocations with equal contents apart.
AllocIds == {1}
CloneId == 0

Threads == {"render", "ctl"}

\* ------------------------------------------------------------ data types
\* Option<String>
NoIcc == [some |-> FALSE, id |-> 0, path |-> ""]
SomeIcc(i, p) == [some |-> TRUE, id |-> i, path |-> p]

\* impl Default for Settings
SettingsDefault ==
    [icc |-> NoIcc,
     brightness |-> DEFAULT_BRIGHTNESS,
     contrast |-> DEFAULT_CONTRAST,
     hue |-> DEFAULT_HUE,
     saturation |-> DEFAULT_SATURATION]

\* Mutant of IccEq: the strings are compared by allocation.
IccEqByAllocation(a, b) ==
    IF a.some /\ b.some THEN a.id = b.id /\ a.path = b.path ELSE a.some = b.some

\* PartialEq of Option<String>: by contents, never by allocation.
IccEq(a, b) ==
    IF a.some /\ b.some THEN a.path = b.path ELSE a.some = b.some

\* #[derive(PartialEq)] on Settings: field by field.
SettingsEq(a, b) ==
    /\ IccEq(a.icc, b.icc)
    /\ a.brightness = b.brightness
    /\ a.contrast = b.contrast
    /\ a.hue = b.hue
    /\ a.saturation = b.saturation

\* Option<Settings>
NoSettings == [some |-> FALSE, val |-> SettingsDefault]
SomeSettings(s) == [some |-> TRUE, val |-> s]

\* Mutant of SettingsChanged: the cached key is never found equal.
SettingsChangedAlways(cur, s) == TRUE

\* current_settings.as_ref() != Some(settings)
SettingsChanged(cur, s) == ~(cur.some /\ SettingsEq(cur.val, s))

\* settings.clone(): the icc String is copied into a new allocation.
CloneSettings(s) ==
    IF s.icc.some THEN [s EXCEPT !.icc.id = CloneId] ELSE s

\* The configuration as a value (allocation identity dropped).
Val(s) == IF s.icc.some THEN [s EXCEPT !.icc.id = 0] ELSE s

\* A lookup table, named by the configuration it was computed from.
NoTable == [built |-> FALSE, cfg |-> SettingsDefault]
TableOf(s) == [built |-> TRUE, cfg |-> Val(s)]

\* Option<State>; shader and gl carry no state of their own here.
NoState == [some |-> FALSE, lut_buffer |-> 0, current_settings |-> NoSettings]
SomeState(buf, cur) == [some |-> TRUE, lut_buffer |-> buf, current_settings |-> cur]

\* std::sync::Mutex
NewMutex == [holder |-> "none", poisoned |-> FALSE]
Free(m) == m.holder = "none"
Locked(m, t) == [m EXCEPT !.holder = t]
\* guard dropped normally
Unlocked(m) == [m EXCEPT !.holder = "none"]
\* Mutant of Poisoned: a mutex without poisoning, the guard dropped while
\* unwinding only releases it.
ReleasedClean(m) == [holder |-> "none", poisoned |-> m.poisoned]

\* guard dropped while unwinding
Poisoned(m) == [holder |-> "none", poisoned |-> TRUE]

\* What a panic / a normal return does to a mutex, seen from thread t.
AfterPanic(m, t) == IF m.holder = t THEN Poisoned(m) ELSE m
AfterReturn(m, t) == IF m.holder = t THEN Unlocked(m) ELSE m

\* ----------------------------------------------------------------- state
VARIABLES
    settings,      \* GlLcms::settings, the value inside the Mutex
    settingsLock,  \* GlLcms::settings, the Mutex
    state,         \* GlLcms::state, the Option<State> inside the Mutex
    stateLock,     \* GlLcms::state, the Mutex
    glBuffers,     \* GL context: buffer names generated and not deleted
    glStore,       \* GL context: per buffer name, its data store
    ssboBinding,   \* GL context: generic GL_SHADER_STORAGE_BUFFER binding
    ssboIndexed,   \* GL context: GL_SHADER_STORAGE_BUFFER binding index 0
    pc,            \* per caller: position in its handler
    op,            \* per caller: the handler it is in
    ret,           \* per caller: how the handler ended
    entry,         \* per caller: was state Some(..) when the state lock was taken
    local,         \* gl_start: the lut_buffer local
    frame,         \* filter_texture: locals of the frame and what it did
    run,           \* the completed frames since the observed value last changed
    starts,        \* number of gl_start calls made
    writes,        \* number of set_property calls made
    px             \* one element of the table, from the builder to the shader

vars == <<settings, settingsLock, state, stateLock, glBuffers, glStore,
          ssboBinding, ssboIndexed, pc, op, ret, entry, local, frame,
          run, starts, writes>>

glVars == <<glBuffers, glStore, ssboBinding, ssboIndexed>>

allVars == <<vars, px>>

\* An lcms2 Transform: the constructor used, the profiles in order of
\* application, the intent and the flags.
NoTransform == [ctor |-> "none", chain |-> <<>>, intent |-> "none", flags |-> {}]

\* Locals of one filter_texture call; the rd* fields are the values the
\* three uses of `settings` read through the guard.
NoFrame ==
    [cur |-> NoSettings,      \* current_settings when the frame began
     rdCmp |-> NoSettings,    \* settings as read by the != test
     rdBuild |-> NoSettings,  \* settings as read by the profile construction
     rdStore |-> NoSettings,  \* settings as read by settings.clone()
     changed |-> FALSE,       \* the != test took the rebuild branch
     warned |-> FALSE,        \* gst::warning! was emitted
     table |-> NoTable,       \* source_pixels after transform_in_place
     built |-> FALSE,         \* transform_in_place ran
     uploads |-> 0,           \* BufferStorage calls
     size |-> 0,              \* byte count handed to BufferStorage
     written |-> 0,           \* bytes the data store took from it
     before |-> NoTable,      \* buffer contents when the frame began
     xform |-> NoTransform,   \* the Transform that was constructed
     rendered |-> FALSE,      \* render_to_target_with_shader ran
     shown |-> NoTable,       \* buffer contents the shader read
     cause |-> "none"]        \* where a panic came from

NoRun == [some |-> FALSE, cfg |-> SettingsDefault, frames |-> 0, builds |-> 0, uploads |-> 0]

\* The element followed, before source_pixels exists.
NoPx == [stage |-> "none", i |-> 0,
         pixel |-> [r |-> 0, g |-> 0, b |-> 0, a |-> 0],
         texel |-> [r |-> 0, g |-> 0, b |-> 0, a |-> 0],
         idx |-> 0]

Init ==
    /\ settings = SettingsDefault
    /\ settingsLock = NewMutex
    /\ state = NoState
    /\ stateLock = NewMutex
    /\ glBuffers = {}
    /\ glStore = [n \in 1..0 |-> [immutable |-> FALSE, data |-> NoTable]]
    /\ ssboBinding = 0
    /\ ssboIndexed = 0
    /\ pc = [t \in Threads |-> "idle"]
    /\ op = [t \in Threads |-> "none"]
    /\ ret = [t \in Threads |-> "none"]
    /\ entry = [t \in Threads |-> FALSE]
    /\ local = 0
    /\ frame = NoFrame
    /\ run = NoRun
    /\ starts = 0
    /\ writes = 0
    /\ px = NoPx

\* A handler is entered.
Call(t, name, next) ==
    /\ pc[t] = "idle"
    /\ pc' = [pc EXCEPT ![t] = next]
    /\ op' = [op EXCEPT ![t] = name]

\* The handler unwinds with a panic: guards held are dropped, poisoning.
Panic(t) ==
    /\ pc' = [pc EXCEPT ![t] = "done"]
    /\ ret' = [ret EXCEPT ![t] = "panic"]
    /\ settingsLock' = AfterPanic(settingsLock, t)
    /\ stateLock' = AfterPanic(stateLock, t)

\* The handler returns normally: guards go out of scope.
Finish(t) ==
    /\ pc' = [pc EXCEPT ![t] = "done"]
    /\ ret' = [ret EXCEPT ![t] = "ok"]
    /\ settingsLock' = AfterReturn(settingsLock, t)
    /\ stateLock' = AfterReturn(stateLock, t)

\* Control is back in the host; the call's locals are gone.
Return(t) ==
    /\ pc[t] = "done"
    /\ pc' = [pc EXCEPT ![t] = "idle"]
    /\ op' = [op EXCEPT ![t] = "none"]
    /\ ret' = [ret EXCEPT ![t] = "none"]
    /\ entry' = [entry EXCEPT ![t] = FALSE]
    /\ local' = IF t = "render" THEN 0 ELSE local
    /\ frame' = IF t = "render" THEN NoFrame ELSE frame
    /\ UNCHANGED <<settings, settingsLock, state, stateLock, glVars, run, starts, writes>>
    /\ UNCHANGED px

\* ------------------------------------------------- set_property, property
PropertyNames == {"icc", "brightness", "contrast", "hue", "saturation"}

\* The values the host may pass for a property: value.get() yields an
\* Option<String> in a fresh allocation, or an f64.
ValuesOf(name) ==
    CASE name = "icc" ->
           {NoIcc} \cup {SomeIcc(a, p) : a \in AllocIds, p \in IccPaths}
      [] name = "brightness" -> BrightnessValues
      [] name = "contrast" -> ContrastValues
      [] name = "hue" -> HueValues
      [] OTHER -> SaturationValues

SetPropertyCall ==
    /\ writes < MaxWrites
    /\ Call("ctl", "set_property", "sp_lock")
    /\ writes' = writes + 1
    /\ UNCHANGED <<settings, settingsLock, state, stateLock, glVars, ret,
                   entry, local, frame, run, starts>>
    /\ UNCHANGED px

\* let mut settings = self.settings.lock().unwrap();
SetPropertyLock ==
    /\ pc["ctl"] = "sp_lock"
    /\ Free(settingsLock)
    /\ IF settingsLock.poisoned
         THEN /\ Panic("ctl")
         ELSE /\ settingsLock' = Locked(settingsLock, "ctl")
              /\ pc' = [pc EXCEPT !["ctl"] = "sp_write"]
              /\ UNCHANGED <<ret, stateLock>>
    /\ UNCHANGED <<settings, state, glVars, op, entry, local, frame, run, starts, writes>>
    /\ UNCHANGED px

\* match pspec.name() { "icc" => settings.icc = value.get().., .. }
WriteField(s, name, value) ==
    CASE name = "icc" -> [s EXCEPT !.icc = value]
      [] name = "brightness" -> [s EXCEPT !.brightness = value]
      [] name = "contrast" -> [s EXCEPT !.contrast = value]
      [] name = "hue" -> [s EXCEPT !.hue = value]
      [] OTHER -> [s EXCEPT !.saturation = value]

\* Mutant of SetPropertyWrite: the write also needs the state lock (say,
\* to drop the cached key), taken while the settings guard is held.
SetPropertyWriteLocksState ==
    /\ pc["ctl"] = "sp_write"
    /\ Free(stateLock)
    /\ \E name \in PropertyNames : \E value \in ValuesOf(name) :
         settings' = WriteField(settings, name, value)
    /\ Finish("ctl")
    /\ UNCHANGED <<state, glVars, op, entry, local, frame, run, starts, writes>>
    /\ UNCHANGED px

\* The match on the call's pspec and value (the arguments are not looked
\* at before this point), and the guard going out of scope.
SetPropertyWrite ==
    /\ pc["ctl"] = "sp_write"
    /\ \E name \in PropertyNames : \E value \in ValuesOf(name) :
         settings' = WriteField(settings, name, value)
    /\ Finish("ctl")
    /\ UNCHANGED <<state, glVars, op, entry, local, frame, run, starts, writes>>
    /\ UNCHANGED px

PropertyCall ==
    /\ Call("ctl", "property", "p_lock")
    /\ UNCHANGED <<settings, settingsLock, state, stateLock, glVars, ret,
                   entry, local, frame, run, starts, writes>>
    /\ UNCHANGED px

\* let settings = self.settings.lock().unwrap();
PropertyLock ==
    /\ pc["ctl"] = "p_lock"
    /\ Free(settingsLock)
    /\ IF settingsLock.poisoned
         THEN /\ Panic("ctl")
         ELSE /\ settingsLock' = Locked(settingsLock, "ctl")
              /\ pc' = [pc EXCEPT !["ctl"] = "p_read"]
              /\ UNCHANGED <<ret, stateLock>>
    /\ UNCHANGED <<settings, state, glVars, op, entry, local, frame, run, starts, writes>>
    /\ UNCHANGED px

\* match pspec.name() { "icc" => settings.icc.to_value(), .. }: reads one
\* field, writes nothing; the guard goes out of scope.
PropertyRead ==
    /\ pc["ctl"] = "p_read"
    /\ Finish("ctl")
    /\ UNCHANGED <<settings, state, glVars, op, entry, local, frame, run, starts, writes>>
    /\ UNCHANGED px

\* ------------------------------------------------------ gl_start, gl_stop
\* glGenBuffers(1, &ssbo): an unused name; no data store yet.
FreshName == Cardinality(glBuffers) + 1

GlStartCall ==
    /\ starts < MaxStarts
    /\ Call("render", "gl_start", "gs_lock")
    /\ starts' = starts + 1
    /\ UNCHANGED <<settings, settingsLock, state, stateLock, glVars, ret,
                   entry, local, frame, run, writes>>
    /\ UNCHANGED px

\* let mut state = self.state.lock().unwrap();
GlStartLock ==
    /\ pc["render"] = "gs_lock"
    /\ Free(stateLock)
    /\ IF stateLock.poisoned
         THEN /\ Panic("render")
              /\ UNCHANGED entry
         ELSE /\ stateLock' = Locked(stateLock, "render")
              /\ pc' = [pc EXCEPT !["render"] = "gs_shader"]
              /\ entry' = [entry EXCEPT !["render"] = state.some]
              /\ UNCHANGED <<ret, settingsLock>>
    /\ UNCHANGED <<settings, state, glVars, op, local, frame, run, starts, writes>>
    /\ UNCHANGED px

\* create_shader: compile / attach / link, each unwrap()ed.
GlStartShader ==
    /\ pc["render"] = "gs_shader"
    /\ \E ok \in BOOLEAN :
         IF ok
           THEN /\ pc' = [pc EXCEPT !["render"] = "gs_ssbo"]
                /\ UNCHANGED <<ret, settingsLock, stateLock>>
           ELSE Panic("render")
    /\ UNCHANGED <<settings, state, glVars, op, entry, local, frame, run, starts, writes>>
    /\ UNCHANGED px

\* let lut_buffer = create_ssbo(&gl);
GlStartSsbo ==
    /\ pc["render"] = "gs_ssbo"
    /\ local' = FreshName
    /\ glBuffers' = glBuffers \cup {FreshName}
    /\ glStore' = glStore @@ (FreshName :> [immutable |-> FALSE, data |-> NoTable])
    /\ pc' = [pc EXCEPT !["render"] = "gs_replace"]
    /\ UNCHANGED <<settings, settingsLock, state, stateLock, ssboBinding,
                   ssboIndexed, op, ret, entry, frame, run, starts, writes>>
    /\ UNCHANGED px

\* Dropping a State drops lut_buffer, a plain GLuint: no GL call is made,
\* the buffer object and its data store stay allocated in the context.
\* Its name is lost, so its contents can never be read again: the model
\* keeps the object and whether it owns a store, not the bytes.
DropState(store, st) ==
    IF st.some
      THEN [store EXCEPT ![st.lut_buffer].data = NoTable]
      ELSE store

\* Mutant of GlStartReplace: the assert! on was_uninitialized is missing.
GlStartReplaceNoAssert ==
    /\ pc["render"] = "gs_replace"
    /\ state' = SomeState(local, NoSettings)
    /\ glStore' = DropState(glStore, state)
    /\ Finish("render")
    /\ run' = NoRun
    /\ UNCHANGED <<settings, glBuffers, ssboBinding, ssboIndexed, op, entry,
                   local, frame, starts, writes>>
    /\ UNCHANGED px

\* state.replace(State { .. current_settings: None }).is_none(), the
\* assert! on it, and parent_gl_start().
GlStartReplace ==
    /\ pc["render"] = "gs_replace"
    /\ state' = SomeState(local, NoSettings)
    /\ glStore' = DropState(glStore, state)
    /\ IF state.some THEN Panic("render") ELSE Finish("render")
    /\ run' = NoRun
    /\ UNCHANGED <<settings, glBuffers, ssboBinding, ssboIndexed, op, entry,
                   local, frame, starts, writes>>
    /\ UNCHANGED px

GlStopCall ==
    /\ Call("render", "gl_stop", "gp_lock")
    /\ UNCHANGED <<settings, settingsLock, state, stateLock, glVars, ret,
                   entry, local, frame, run, starts, writes>>
    /\ UNCHANGED px

\* let mut state = self.state.lock().unwrap();
GlStopLock ==
    /\ pc["render"] = "gp_lock"
    /\ Free(stateLock)
    /\ IF stateLock.poisoned
         THEN /\ Panic("render")
              /\ UNCHANGED entry
         ELSE /\ stateLock' = Locked(stateLock, "render")
              /\ pc' = [pc EXCEPT !["render"] = "gp_take"]
              /\ entry' = [entry EXCEPT !["render"] = state.some]
              /\ UNCHANGED <<ret, settingsLock>>
    /\ UNCHANGED <<settings, state, glVars, op, local, frame, run, starts, writes>>
    /\ UNCHANGED px

\* Mutant of GlStopTake: the State is left in place when the filter stops.
GlStopTakeKeeps ==
    /\ pc["render"] = "gp_take"
    /\ state' = state
    /\ glStore' = glStore
    /\ IF state.some THEN Finish("render") ELSE Panic("render")
    /\ run' = NoRun
    /\ UNCHANGED <<settings, glBuffers, ssboBinding, ssboIndexed, op, entry,
                   local, frame, starts, writes>>
    /\ UNCHANGED px

\* state.take().expect(..), the State is dropped, parent_gl_stop().
GlStopTake ==
    /\ pc["render"] = "gp_take"
    /\ state' = NoState
    /\ glStore' = DropState(glStore, state)
    /\ IF state.some THEN Finish("render") ELSE Panic("render")
    /\ run' = NoRun
    /\ UNCHANGED <<settings, glBuffers, ssboBinding, ssboIndexed, op, entry,
                   local, frame, starts, writes>>
    /\ UNCHANGED px

\* --------------------------------------------------------- filter_texture
FilterTextureCall ==
    /\ Call("render", "filter_texture", "ft_lock_state")
    /\ UNCHANGED <<settings, settingsLock, state, stateLock, glVars, ret,
                   entry, local, frame, run, starts, writes>>
    /\ UNCHANGED px

\* let mut state = self.state.lock().unwrap();
FtLockState ==
    /\ pc["render"] = "ft_lock_state"
    /\ Free(stateLock)
    /\ IF stateLock.poisoned
         THEN /\ Panic("render")
              /\ frame' = [frame EXCEPT !.cause = "poisoned"]
              /\ UNCHANGED entry
         ELSE /\ stateLock' = Locked(stateLock, "render")
              /\ pc' = [pc EXCEPT !["render"] = "ft_expect"]
              /\ entry' = [entry EXCEPT !["render"] = state.some]
              /\ UNCHANGED <<ret, settingsLock, frame>>
    /\ UNCHANGED <<settings, state, glVars, op, local, run, starts, writes>>
    /\ UNCHANGED px

\* state.as_mut().expect("Should not be calling filter_texture() ..")
FtExpect ==
    /\ pc["render"] = "ft_expect"
    /\ IF state.some
         THEN /\ pc' = [pc EXCEPT !["render"] = "ft_lock_settings"]
              /\ frame' = [frame EXCEPT
                            !.cur = state.current_settings,
                            !.before = glStore[state.lut_buffer].data]
              /\ UNCHANGED <<ret, settingsLock, stateLock>>
         ELSE /\ Panic("render")
              /\ frame' = [frame EXCEPT !.cause = "stopped"]
    /\ UNCHANGED <<settings, state, glVars, op, entry, local, run, starts, writes>>
    /\ UNCHANGED px

\* Mutant of FtLockSettings: the guard is dropped at the end of the let
\* statement, so the rest of the frame reads settings without the lock.
FtLockSettingsDropped ==
    /\ pc["render"] = "ft_lock_settings"
    /\ Free(settingsLock)
    /\ IF settingsLock.poisoned
         THEN /\ Panic("render")
              /\ frame' = [frame EXCEPT !.cause = "poisoned"]
         ELSE /\ pc' = [pc EXCEPT !["render"] = "ft_compare"]
              /\ UNCHANGED <<ret, settingsLock, stateLock, frame>>
    /\ UNCHANGED <<settings, state, glVars, op, entry, local, run, starts, writes>>
    /\ UNCHANGED px

\* let settings = &*self.settings.lock().unwrap();
\* The guard is a temporary of the let initialiser under a borrow, so it
\* lives to the end of the function body.
FtLockSettings ==
    /\ pc["render"] = "ft_lock_settings"
    /\ Free(settingsLock)
    /\ IF settingsLock.poisoned
         THEN /\ Panic("render")
              /\ frame' = [frame EXCEPT !.cause = "poisoned"]
         ELSE /\ settingsLock' = Locked(settingsLock, "render")
              /\ pc' = [pc EXCEPT !["render"] = "ft_compare"]
              /\ UNCHANGED <<ret, stateLock, frame>>
    /\ UNCHANGED <<settings, state, glVars, op, entry, local, run, starts, writes>>
    /\ UNCHANGED px

\* Mutant of FtCompare: the upload is outside the if, so a cache hit
\* uploads as well.
FtCompareAlwaysUploads ==
    /\ pc["render"] = "ft_compare"
    /\ LET changed == SettingsChanged(state.current_settings, settings)
       IN  /\ frame' = [frame EXCEPT !.rdCmp = SomeSettings(settings),
                                     !.changed = changed]
           /\ pc' = [pc EXCEPT !["render"] =
                       IF changed THEN "ft_default" ELSE "ft_upload"]
    /\ UNCHANGED <<settings, settingsLock, state, stateLock, glVars, op, ret,
                   entry, local, run, starts, writes>>
    /\ UNCHANGED px

\* if current_settings.as_ref() != Some(settings) {
FtCompare ==
    /\ pc["render"] = "ft_compare"
    /\ LET changed == SettingsChanged(state.current_settings, settings)
       IN  /\ frame' = [frame EXCEPT !.rdCmp = SomeSettings(settings),
                                     !.changed = changed]
           /\ pc' = [pc EXCEPT !["render"] =
                       IF changed THEN "ft_default" ELSE "ft_bind"]
    /\ UNCHANGED <<settings, settingsLock, state, stateLock, glVars, op, ret,
                   entry, local, run, starts, writes>>
    /\ UNCHANGED px

\* if settings == &Default::default() { gst::warning!(..); todo!(..) }
FtDefault ==
    /\ pc["render"] = "ft_default"
    /\ IF SettingsEq(settings, SettingsDefault)
         THEN /\ frame' = [frame EXCEPT !.warned = TRUE, !.cause = "todo"]
              /\ Panic("render")
         ELSE /\ pc' = [pc EXCEPT !["render"] = "ft_build"]
              /\ UNCHANGED <<ret, settingsLock, stateLock, frame>>
    /\ UNCHANGED <<settings, state, glVars, op, entry, local, run, starts, writes>>
    /\ UNCHANGED px

\* How the lcms2 calls of one build can end: each is unwrap()ed.
BuildOutcomes(s) ==
    {"ok", "bchsw", "transform"} \cup (IF s.icc.some THEN {"profile"} ELSE {})

\* Mutant of FtBuild: a failed construction falls back to the identity
\* table instead of unwinding.
FtBuildFallback ==
    /\ pc["render"] = "ft_build"
    /\ \E outcome \in BuildOutcomes(settings) :
         frame' = [frame EXCEPT
                     !.rdBuild = SomeSettings(settings),
                     !.table = IF outcome = "ok" THEN TableOf(settings)
                               ELSE TableOf(SettingsDefault),
                     !.built = (outcome = "ok"),
                     !.cause = IF outcome = "ok" THEN @ ELSE outcome]
    /\ pc' = [pc EXCEPT !["render"] = "ft_upload"]
    /\ UNCHANGED <<settings, settingsLock, state, stateLock, glVars, op, ret,
                   entry, local, run, starts, writes>>
    /\ UNCHANGED px

\* let mut profiles = vec![]; the custom profile if icc is set, then bcsh.
Profiles(s) == IF s.icc.some THEN <<"custom", "bcsh">> ELSE <<"bcsh">>

\* let t = if let [single_profile] = &profiles[..] { Transform::new(..) }
\*         else { profiles.push(output_profile); new_multiprofile(..) }
\* Transform::new takes no flags argument: lcms2 passes Flags::default().
TransformFor(s) ==
    IF Len(Profiles(s)) = 1
      THEN [ctor |-> "new",
            chain |-> <<Profiles(s)[1], "srgb">>,
            intent |-> "Perceptual",
            flags |-> {}]
      ELSE [ctor |-> "new_multiprofile",
            chain |-> Append(Profiles(s), "srgb"),
            intent |-> "Perceptual",
            flags |-> {"NO_NEGATIVES", "KEEP_SEQUENCE"}]

\* Profile::new_file, Profile::new_bchsw_abstract_context, Transform::new /
\* new_multiprofile, then transform_in_place over 0..0x1_00_00_00.
FtBuild ==
    /\ pc["render"] = "ft_build"
    /\ \E outcome \in BuildOutcomes(settings) :
         IF outcome = "ok"
           THEN /\ frame' = [frame EXCEPT !.rdBuild = SomeSettings(settings),
                                          !.xform = TransformFor(settings),
                                          !.table = TableOf(settings),
                                          !.built = TRUE]
                /\ pc' = [pc EXCEPT !["render"] = "ft_upload"]
                /\ UNCHANGED <<ret, settingsLock, stateLock>>
           ELSE /\ frame' = [frame EXCEPT !.rdBuild = SomeSettings(settings),
                                          !.cause = outcome]
                /\ Panic("render")
    /\ UNCHANGED <<settings, state, glVars, op, entry, local, run, starts, writes>>
    /\ UNCHANGED px

\* glBufferStorage(target, size, data, 0) on the buffer bound to target:
\* creates an immutable data store; on a buffer that already has one it
\* raises GL_INVALID_OPERATION and changes nothing.  The code does not
\* look at the GL error.
BufferStorage(store, buf, data) ==
    IF store[buf].immutable
      THEN store
      ELSE [store EXCEPT ![buf] = [immutable |-> TRUE, data |-> data]]

\* (0..0x1_00_00_00).collect(): source_pixels.len()
LutEntries == 16777216
\* std::mem::size_of::<u32>()
EntryBytes == 4
\* GLsizeiptr is isize; its smallest width on a supported target is 32 bits.
GLsizeiptrMax == 2147483647

\* source_pixels.len() * std::mem::size_of::<u32>()
UploadBytes == LutEntries * EntryBytes

\* The bytes a glBufferStorage call of `size` bytes puts in the store.
BytesStored(store, buf, size) == IF store[buf].immutable THEN 0 ELSE size

\* gl.BindBuffer(SHADER_STORAGE_BUFFER, lut_buffer); gl.BufferStorage(..)
\* with the size try_into() a GLsizeiptr and unwrap()ed.
FtUpload ==
    /\ pc["render"] = "ft_upload"
    /\ ssboBinding' = state.lut_buffer
    /\ IF UploadBytes > GLsizeiptrMax
         THEN /\ Panic("render")
              /\ frame' = [frame EXCEPT !.cause = "try_into"]
              /\ UNCHANGED glStore
         ELSE /\ glStore' = BufferStorage(glStore, state.lut_buffer, frame.table)
              /\ frame' = [frame EXCEPT
                            !.uploads = @ + 1,
                            !.size = UploadBytes,
                            !.written = BytesStored(glStore, state.lut_buffer,
                                                    UploadBytes)]
              /\ pc' = [pc EXCEPT !["render"] = "ft_store"]
              /\ UNCHANGED <<ret, settingsLock, stateLock>>
    /\ UNCHANGED <<settings, state, glBuffers, ssboIndexed, op, entry, local,
                   run, starts, writes>>
    /\ UNCHANGED px

\* Mutant of FtStore: the cache key is not updated after a rebuild.
FtStoreForgets ==
    /\ pc["render"] = "ft_store"
    /\ frame' = [frame EXCEPT !.rdStore = SomeSettings(settings)]
    /\ pc' = [pc EXCEPT !["render"] = "ft_bind"]
    /\ UNCHANGED <<settings, settingsLock, state, stateLock, glVars, op, ret,
                   entry, local, run, starts, writes>>
    /\ UNCHANGED px

\* state.current_settings = Some(settings.clone());
FtStore ==
    /\ pc["render"] = "ft_store"
    /\ state' = [state EXCEPT
                   !.current_settings = SomeSettings(CloneSettings(settings))]
    /\ frame' = [frame EXCEPT !.rdStore = SomeSettings(settings)]
    /\ pc' = [pc EXCEPT !["render"] = "ft_bind"]
    /\ UNCHANGED <<settings, settingsLock, stateLock, glVars, op, ret,
                   entry, local, run, starts, writes>>
    /\ UNCHANGED px

\* shader.use_(); gl.BindBuffer(..); gl.BindBufferBase(.., 0, lut_buffer)
FtBind ==
    /\ pc["render"] = "ft_bind"
    /\ ssboBinding' = state.lut_buffer
    /\ ssboIndexed' = state.lut_buffer
    /\ pc' = [pc EXCEPT !["render"] = "ft_render"]
    /\ UNCHANGED <<settings, settingsLock, state, stateLock, glBuffers,
                   glStore, op, ret, entry, local, frame, run, starts, writes>>
    /\ UNCHANGED px

\* obj.render_to_target_with_shader(input, output, shader): the shader
\* reads lut[] from the buffer at binding index 0.
FtRender ==
    /\ pc["render"] = "ft_render"
    /\ frame' = [frame EXCEPT !.rendered = TRUE,
                              !.shown = glStore[ssboIndexed].data]
    /\ pc' = [pc EXCEPT !["render"] = "ft_unbind"]
    /\ UNCHANGED <<settings, settingsLock, state, stateLock, glVars, op, ret,
                   entry, local, run, starts, writes>>
    /\ UNCHANGED px

\* The frames that observed the same configuration value in a row.
NextRun(r, f) ==
    IF r.some /\ r.cfg = Val(f.rdCmp.val)
      THEN [r EXCEPT !.frames = IF @ < 2 THEN @ + 1 ELSE @,
                     !.builds = @ + (IF f.built THEN 1 ELSE 0),
                     !.uploads = @ + f.uploads]
      ELSE [some |-> TRUE, cfg |-> Val(f.rdCmp.val), frames |-> 1,
            builds |-> IF f.built THEN 1 ELSE 0, uploads |-> f.uploads]

\* gl.BindBuffer(SHADER_STORAGE_BUFFER, 0); parent_filter_texture(..)
FtUnbind ==
    /\ pc["render"] = "ft_unbind"
    /\ ssboBinding' = 0
    /\ run' = NextRun(run, frame)
    /\ Finish("render")
    /\ UNCHANGED <<settings, state, glBuffers, glStore, ssboIndexed, op,
                   entry, local, frame, starts, writes>>
    /\ UNCHANGED px

\* --------------------------------------------- indexing of the table
\* The builder fills source_pixels with 0..0x1_00_00_00 and lcms2 reads
\* each element as one RGBA_8 pixel; the fragment shader computes the
\* index of a texel with packUnorm4x8.  One pixel is followed from the
\* builder to the shader.
Channel == 256

\* The channel values and the indices that are followed.
ChannelSamples == {0, 1, 127, 128, 255}
IndexSamples ==
    {r + Channel * g + Channel * Channel * b :
       r \in ChannelSamples, g \in ChannelSamples, b \in ChannelSamples}

\* PixelFormat::RGBA_8 over an element of source_pixels: the four bytes
\* of the 32-bit integer in memory order (little-endian targets).
Rgba8(i) ==
    [r |-> i % Channel,
     g |-> (i \div Channel) % Channel,
     b |-> (i \div (Channel * Channel)) % Channel,
     a |-> (i \div (Channel * Channel * Channel)) % Channel]

\* texture(tex, v_texcoord) of an 8-bit texel: each channel c is read as
\* c / 255; the value is kept as its numerator over 255.
Texture(texel) == texel

\* GLSL packUnorm4x8 on one component: round(clamp(c, 0, 1) * 255) with
\* c = n / 255.
PackUnorm(n) ==
    LET clamped == IF n < 0 THEN 0 ELSE IF n > 255 THEN 255 ELSE n
    IN  (2 * clamped * 255 + 255) \div (2 * 255)

\* GLSL packUnorm4x8: the first component in the least significant bits.
PackUnorm4x8(v) ==
    PackUnorm(v.r) + Channel * PackUnorm(v.g)
      + Channel * Channel * PackUnorm(v.b)
      + Channel * Channel * Channel * PackUnorm(v.a)

\* Mutant of ShaderIndex: the sampled alpha is packed as well.
ShaderIndexKeepsAlpha(texel) == PackUnorm4x8(Texture(texel))

\* vec4 rgb_ = vec4(rgba.xyz, 0); uint idx = packUnorm4x8(rgb_);
ShaderIndex(texel) ==
    LET rgba == Texture(texel)
    IN  PackUnorm4x8([rgba EXCEPT !.a = 0])

\* (0..0x1_00_00_00).collect(): position i of source_pixels holds i.
PxElement ==
    /\ px.stage = "none"
    /\ \E i \in IndexSamples :
         px' = [px EXCEPT !.stage = "element", !.i = i]
    /\ UNCHANGED vars

\* t.transform_in_place(&mut source_pixels) reads the element as a pixel.
PxTransform ==
    /\ px.stage = "element"
    /\ px' = [px EXCEPT !.stage = "pixel", !.pixel = Rgba8(px.i)]
    /\ UNCHANGED vars

\* The shader samples a texel of that colour; its alpha is the frame's.
PxSample ==
    /\ px.stage = "pixel"
    /\ \E a \in ChannelSamples :
         px' = [px EXCEPT !.stage = "texel",
                          !.texel = [px.pixel EXCEPT !.a = a]]
    /\ UNCHANGED vars

\* The shader computes the index it reads lut[] at.
PxIndex ==
    /\ px.stage = "texel"
    /\ px' = [px EXCEPT !.stage = "indexed", !.idx = ShaderIndex(px.texel)]
    /\ UNCHANGED vars

PackNext ==
    \/ PxElement
    \/ PxTransform
    \/ PxSample
    \/ PxIndex

\* ------------------------------------------------------------------ spec
Next ==
    \/ SetPropertyCall
    \/ SetPropertyLock
    \/ SetPropertyWrite
    \/ PropertyCall
    \/ PropertyLock
    \/ PropertyRead
    \/ GlStartCall
    \/ GlStartLock
    \/ GlStartShader
    \/ GlStartSsbo
    \/ GlStartReplace
    \/ GlStopCall
    \/ GlStopLock
    \/ GlStopTake
    \/ FilterTextureCall
    \/ FtLockState
    \/ FtExpect
    \/ FtLockSettings
    \/ FtCompare
    \/ FtDefault
    \/ FtBuild
    \/ FtUpload
    \/ FtStore
    \/ FtBind
    \/ FtRender
    \/ FtUnbind
    \/ \E t \in Threads : Return(t)

Spec == Init /\ [][Next]_allVars

\* The steps a caller takes inside a handler, once the host has made the
\* call: everything but the calls themselves and the returns to the host.
CtlBody == SetPropertyLock \/ SetPropertyWrite \/ PropertyLock \/ PropertyRead

RenderBody ==
    \/ GlStartLock \/ GlStartShader \/ GlStartSsbo \/ GlStartReplace
    \/ GlStopLock \/ GlStopTake
    \/ FtLockState \/ FtExpect \/ FtLockSettings \/ FtCompare \/ FtDefault
    \/ FtBuild \/ FtUpload \/ FtStore \/ FtBind \/ FtRender \/ FtUnbind

\* The host is free to call or not.  A thread inside a handler keeps
\* running, and a thread waiting in Mutex::lock gets the mutex if it is
\* released again and again.
SpecFair ==
    /\ Spec
    /\ SF_allVars(CtlBody)
    /\ SF_allVars(RenderBody)

\* One table element followed from the builder to the shader, in a filter
\* as constructed.
SpecPack == Init /\ [][PackNext]_allVars

\* --------------------------------------------------------------- claims
RenderDone == pc["render"] = "done"
FrameDone == RenderDone /\ op["render"] = "filter_texture"
BuildFailures == {"profile", "bchsw", "transform"}

\* The table of the default configuration: table[i] = unpack(i).
IdentityTable == TableOf(SettingsDefault)

\* C1: whenever filter_texture has invoked the render operation, the
\* contents the shader read from the lookup buffer are the table of the
\* configuration that frame read.
C1_NeverStaleRender ==
    frame.rendered => frame.shown = TableOf(frame.rdCmp.val)

\* C2: the frames that observe the same configuration value in a row, with
\* no other value observed in between, build the table once and upload it
\* once between them.
C2_CacheHitBuildsOnce ==
    run.some => (run.builds = 1 /\ run.uploads = 1)

C2_Witness ==
    /\ run.some
    /\ run.frames = 2
    /\ FrameDone
    /\ ret["render"] = "ok"
    /\ ~frame.built

\* C3: a frame takes the rebuild branch exactly when the configuration it
\* reads differs as a value, in one of the five fields, from the one stored
\* with the last built table (or none is stored); a frame that returns has
\* built and uploaded exactly in that case.
C3_RebuildIffFieldDiffers ==
    frame.rdCmp.some =>
      /\ frame.changed <=>
           \/ ~frame.cur.some
           \/ Val(frame.cur.val).icc # Val(frame.rdCmp.val).icc
           \/ frame.cur.val.brightness # frame.rdCmp.val.brightness
           \/ frame.cur.val.contrast # frame.rdCmp.val.contrast
           \/ frame.cur.val.hue # frame.rdCmp.val.hue
           \/ frame.cur.val.saturation # frame.rdCmp.val.saturation
      /\ (FrameDone /\ ret["render"] = "ok") =>
           /\ frame.built <=> frame.changed
           /\ frame.uploads = (IF frame.changed THEN 1 ELSE 0)

\* A frame that does not rebuild although the icc String it reads is
\* another allocation than the cached one.
C3_Witness ==
    /\ FrameDone
    /\ ret["render"] = "ok"
    /\ ~frame.changed
    /\ frame.rdCmp.val.icc.some
    /\ frame.rdCmp.val.icc.id # frame.cur.val.icc.id

\* C4: a frame processed with the default configuration publishes the
\* identity table and is rendered.
C4_DefaultPublishesIdentity ==
    (FrameDone /\ frame.rdCmp.some /\ Val(frame.rdCmp.val) = SettingsDefault) =>
      /\ frame.rendered
      /\ frame.shown = IdentityTable

\* C5: a frame that observes the default configuration warns and does not
\* fail; the filter stays Started and usable.
C5_DefaultWarnsAndContinues ==
    (FrameDone /\ frame.rdCmp.some /\ Val(frame.rdCmp.val) = SettingsDefault) =>
      /\ frame.warned
      /\ ret["render"] = "ok"
      /\ state.some
      /\ ~stateLock.poisoned
      /\ ~settingsLock.poisoned

\* C6: gl_start on a Started filter, gl_stop on a Stopped filter and
\* filter_texture on a Stopped filter never return normally.
C6_LifecycleViolationsFatal ==
    RenderDone =>
      /\ (op["render"] = "gl_start" /\ entry["render"]) => ret["render"] = "panic"
      /\ (op["render"] = "gl_stop" /\ ~entry["render"]) => ret["render"] = "panic"
      /\ (op["render"] = "filter_texture" /\ ~entry["render"]) => ret["render"] = "panic"

C6_Witness ==
    /\ RenderDone
    /\ op["render"] = "gl_start"
    /\ entry["render"]
    /\ ret["render"] = "panic"

\* C7: between handlers, the filter owns exactly one live GL buffer object
\* while Started and none while Stopped.
C7_OneBufferWhileStarted ==
    pc["render"] \in {"idle", "done"} =>
      Cardinality(glBuffers) = (IF state.some THEN 1 ELSE 0)

\* C8: the configuration a frame uses in the equality test, in the table
\* build and as the stored cache key is one value, and it is the shared
\* settings value for as long as the frame runs.
C8_AtomicSnapshot ==
    /\ frame.rdBuild.some => frame.rdBuild = frame.rdCmp
    /\ frame.rdStore.some =>
         /\ frame.rdStore = frame.rdCmp
         /\ frame.table = TableOf(frame.rdCmp.val)
         /\ state.current_settings.some
         /\ Val(state.current_settings.val) = Val(frame.rdCmp.val)
    /\ (frame.rdCmp.some /\ ~RenderDone) => settings = frame.rdCmp.val

\* A frame has stored its cache key while a set_property call is waiting
\* for the settings lock.
C8_Witness ==
    /\ frame.rdStore.some
    /\ pc["render"] = "ft_bind"
    /\ pc["ctl"] = "sp_lock"

\* C9: a frame whose profile or transform construction fails ends in a
\* panic, with no upload, no render and the cached configuration as it was.
C9_BuildFailureAbortsFrame ==
    frame.cause \in BuildFailures =>
      /\ RenderDone
      /\ ret["render"] = "panic"
      /\ ~frame.built
      /\ frame.uploads = 0
      /\ ~frame.rendered
      /\ state.current_settings = frame.cur

\* A build fails in a frame that had a table cached.
C9_Witness ==
    /\ frame.cause \in BuildFailures
    /\ frame.cur.some
    /\ RenderDone

\* C10: after every upload of a rebuild, the buffer holds the table that
\* was just built.
C10_UploadReplacesContents ==
    pc["render"] = "ft_store" =>
      glStore[state.lut_buffer].data = frame.table

\* C11: the index the shader computes for a texel, with the sampled alpha
\* forced to 0, is the position of the table element the builder read as
\* that texel's colour: pack(unpack(i)) = i, with unpack(i) the channels
\* (i mod 256, (i div 256) mod 256, (i div 65536) mod 256, 0).
C11_PackUnpackAgree ==
    /\ px.stage \in {"pixel", "texel", "indexed"} =>
         px.pixel = [r |-> px.i % 256, g |-> (px.i \div 256) % 256,
                     b |-> (px.i \div 65536) % 256, a |-> 0]
    /\ px.stage = "indexed" => px.idx = px.i

\* A colour with three different non-zero channels, sampled with a
\* non-zero alpha.
C11_Witness ==
    /\ px.stage = "indexed"
    /\ px.pixel.r = 255
    /\ px.pixel.g = 128
    /\ px.pixel.b = 1
    /\ px.texel.a = 255

\* C12: every upload writes 16,777,216 entries of 4 bytes, 67,108,864
\* bytes, whatever the configuration, and that count fits GLsizeiptr.
C12_UploadWritesWholeTable ==
    pc["render"] = "ft_store" =>
      /\ frame.size = 16777216 * 4
      /\ frame.size =< GLsizeiptrMax
      /\ frame.written = 67108864

\* C13: a frame uploads exactly when it rebuilt; a cache-hit frame makes
\* no upload and leaves the buffer contents and the cached configuration
\* as they were.
C13_UploadOnlyOnRebuild ==
    /\ frame.uploads \in {0, 1}
    /\ frame.uploads = 1 => frame.built
    /\ (FrameDone /\ ret["render"] = "ok") =>
         (frame.uploads = 1 <=> frame.built)
    /\ (frame.rdCmp.some /\ ~frame.changed) =>
         /\ frame.uploads = 0
         /\ ~frame.built
         /\ glStore[state.lut_buffer].data = frame.before
         /\ state.current_settings = frame.cur

\* A cache-hit frame has returned; the buffer held a table before it.
C13_Witness ==
    /\ FrameDone
    /\ ret["render"] = "ok"
    /\ frame.rdCmp.some
    /\ ~frame.changed
    /\ frame.before.built
    /\ frame.rendered

\* C14: the lookup buffer is at binding index 0 when the render operation
\* runs, and when filter_texture has returned it is bound neither to the
\* generic nor to the indexed shader storage binding point.
C14_BindRenderUnbind ==
    /\ frame.rendered => ssboIndexed = state.lut_buffer
    /\ (FrameDone /\ ret["render"] = "ok") =>
         /\ ssboBinding # state.lut_buffer
         /\ ssboIndexed # state.lut_buffer

\* C15: every transform a frame builds a table with has perceptual
\* intent, the flags NO_NEGATIVES and KEEP_SEQUENCE, and the sRGB output
\* profile applied last.
C15_TransformFlags ==
    frame.built =>
      /\ frame.xform.intent = "Perceptual"
      /\ {"NO_NEGATIVES", "KEEP_SEQUENCE"} \subseteq frame.xform.flags
      /\ frame.xform.chain[Len(frame.xform.chain)] = "srgb"

\* C16: gl_start leaves the cache empty and gl_stop clears it.  After a
\* successful gl_start the state holds a fresh buffer without a data store
\* and no cache key; after a successful gl_stop there is no state.  The
\* first frame of a started period finds no key and no table, always takes
\* the rebuild branch, and when it renders the shader reads the table this
\* frame built and uploaded in full.
FirstFrame == op["render"] = "filter_texture" /\ ~run.some /\ pc["render"] # "done"

C16_EmptyCacheAtStart ==
    /\ (RenderDone /\ op["render"] = "gl_start" /\ ret["render"] = "ok") =>
         /\ state.some
         /\ ~state.current_settings.some
         /\ glStore[state.lut_buffer] = [immutable |-> FALSE, data |-> NoTable]
    /\ (RenderDone /\ op["render"] = "gl_stop" /\ ret["render"] = "ok") =>
         ~state.some
    /\ FirstFrame =>
         /\ frame.cur = NoSettings
         /\ frame.before = NoTable
         /\ frame.rdCmp.some => frame.changed
         /\ frame.rendered =>
              /\ frame.built
              /\ frame.uploads = 1
              /\ frame.written = UploadBytes
              /\ frame.shown = frame.table
              /\ frame.table = TableOf(frame.rdCmp.val)

\* A restart with the configuration unchanged: the first period uploaded
\* a table to buffer 1, and the first frame of the second period has
\* built and rendered again with buffer 2.
C16_Witness ==
    /\ starts = 2
    /\ writes = 1
    /\ 1 \in glBuffers /\ glStore[1].immutable
    /\ state.some /\ state.lut_buffer = 2
    /\ FirstFrame
    /\ frame.built
    /\ frame.rendered

\* C17 as stated: within a started period a configuration value whose
\* table was already built is not built again.  The buffer of a period is
\* fresh at gl_start, so a table found in it when a frame begins was built
\* by an earlier frame of the same period: no frame builds that table.
C17_NeverBuiltTwice ==
    ~(frame.built /\ frame.before.built /\ frame.table = frame.before)

\* C17, amended: the cache is updated at most once per change of the
\* configuration.  The stored key changes to a value only in the store
\* step of a frame that built, the buffer stays the same, and the value
\* stored differs from the one it replaces; only the most recent key is
\* remembered, so a value that was replaced in between is built again.
C17_UpdatedOncePerChange ==
    [][/\ (state' # state /\ state'.some /\ state'.current_settings.some) =>
            pc["render"] = "ft_store"
       /\ (pc["render"] = "ft_store" /\ pc'["render"] # "ft_store") =>
            /\ frame.built
            /\ state.some /\ state'.some
            /\ state'.lut_buffer = state.lut_buffer
            /\ state'.current_settings = SomeSettings(CloneSettings(frame.rdBuild.val))
            /\ state.current_settings.some =>
                 Val(state.current_settings.val) # Val(state'.current_settings.val)
      ]_allVars

\* A, B, A: the key has just been updated to the value whose table the
\* period's first build had put in the buffer, replacing another key.
C17_Witness ==
    /\ pc["render"] = "ft_bind"
    /\ frame.built
    /\ frame.before.built
    /\ frame.table = frame.before
    /\ frame.cur.some
    /\ Val(frame.cur.val) # Val(state.current_settings.val)

\* C18: the two mutexes are taken in one order: only filter_texture holds
\* both, state first; gl_start and gl_stop hold state alone, set_property
\* and property hold settings alone and wait for nothing while they do; no
\* guard outlives its call.  Whenever a caller is inside a handler some
\* caller inside a handler can take a step, and every call made comes to
\* its end, by returning or by unwinding.
InCall(t) == pc[t] \notin {"idle", "done"}

LockOrder ==
    /\ stateLock.holder \in {"none", "render"}
    /\ settingsLock.holder = "render" =>
         /\ stateLock.holder = "render"
         /\ op["render"] = "filter_texture"
    /\ settingsLock.holder = "ctl" => pc["ctl"] \in {"sp_write", "p_read"}
    /\ \A t \in Threads :
         (settingsLock.holder = t \/ stateLock.holder = t) => InCall(t)

NotAllBlocked ==
    /\ InCall("ctl") /\ ~ENABLED CtlBody => ENABLED RenderBody
    /\ InCall("render") /\ ~ENABLED RenderBody => ENABLED CtlBody

FatalCauses == {"todo"} \cup BuildFailures
BothPoisoned == stateLock.poisoned /\ settingsLock.poisoned

C19_FatalAbsorbing ==
    /\ []((FrameDone /\ frame.cause \in FatalCauses) =>
            (ret["render"] = "panic" /\ BothPoisoned /\ ~frame.rendered))
    /\ [](settingsLock.poisoned => stateLock.poisoned)
    /\ [][BothPoisoned =>
            /\ BothPoisoned'
            /\ settings' = settings
            /\ state' = state
            /\ ~frame'.rendered
            /\ \A t \in Threads :
                 (pc[t] # "done" /\ pc'[t] = "done") => ret'[t] = "panic"
         ]_allVars

\* After a fatal frame a set_property call has failed on the poisoned
\* settings mutex.
C19_Witness ==
    /\ BothPoisoned
    /\ pc["ctl"] = "done"
    /\ op["ctl"] = "set_property"
    /\ ret["ctl"] = "panic"

====
